---- MODULE Spec2Model ----
(***************************************************************************)
(* Model of the wallet service: the provisioning use case (Create), the    *)
(* ledger use cases (Recharge, Transfer), the transaction manager and the  *)
(* PostgreSQL repositories they call.                                      *)
(*                                                                         *)
(* Each request is served by its own goroutine (a worker).  Every          *)
(* repository call is one SQL statement and is one atomic step of the      *)
(* model; the in-memory computation between two statements belongs to the  *)
(* step of the statement that precedes it.                                 *)
(*                                                                         *)
(* The repositories run their statements on r.db, the connection pool      *)
(* handle they were constructed with (wallet_repository.go:20,25,46 and    *)
(* user_repository.go:22,34,45).  WithTransaction hands fn the caller's    *)
(* ctx and not the transaction handle tx (part_002:19-21), so no statement *)
(* of fn runs on tx: each statement is executed in autocommit mode and is  *)
(* visible to every other connection as soon as it returns, and the        *)
(* transaction that WithTransaction commits or rolls back holds no write.  *)
(*                                                                         *)
(* A cancellation or an expired deadline of the call's context is seen by  *)
(* the code at the next statement it issues, which database/sql refuses    *)
(* with the context's error: it is modelled as that statement failing with *)
(* ErrCanceled.  Any statement may also fail with a storage error.         *)
(*                                                                         *)
(* Amounts and balances are integers (minor units); the float64 and        *)
(* decimal(15,2) representations are not modelled.                         *)
(*                                                                         *)
(* The user repository the use cases are wired with is the Redis cache     *)
(* decorator around the PostgreSQL repository.  Create calls only its      *)
(* FindByUsername and Save, which pass straight through; FindByID, the     *)
(* one operation that reads and writes the cache, is called by clients of  *)
(* the repository interface.  Spec is the specification of the use cases,  *)
(* CacheSpec that of the decorator and its clients, RepoSpec that of the   *)
(* clients of the wallet and transaction repositories, LiveSpec is Spec    *)
(* under fair scheduling, and TtlSpec is FindByID of the decorator with    *)
(* the minutes of an entry's life counted.                                 *)
(***************************************************************************)
EXTENDS Integers, FiniteSets, Sequences, TLC

\* ------------------------------------------------------------------ bounds
MaxAmount == 2      \* largest amount a request carries
MaxDelay == 2       \* most minutes between a call's read of the store and its Set

Workers == {"g1", "g2"}                \* goroutines; each serves one call
InitIds == {1, 2, 3}                   \* users and wallets of the initial store
InitBalance == <<3, 1, 0>>             \* their balances
Ids == 1 .. 5                          \* identifiers uuid.New can yield
ArgIds == {1, 2, 3, 4}                 \* wallet identifiers a request names
Amounts == (0 - 1) .. MaxAmount
Usernames == {"u1", "u4"}
DNIs == {"d1", "d4", "d5"}
Clients == {"c1", "c2"}                \* callers of the user repository
FindIds == {1, 4}                      \* user identifiers a client names

\* ------------------------------------------------------- program constants
DefaultCurrency == "USD"
DefaultBalance == 0

\* error values (the messages of the errors the code returns)
Nil == "nil"
ErrRechargeAmount == "recharge amount must be positive"
ErrTransferAmount == "transfer amount must be positive"
ErrSameWallet == "cannot transfer to the same wallet"
ErrSenderNotFound == "sender wallet not found"
ErrInsufficientFunds == "insufficient funds"
ErrReceiverNotFound == "receiver wallet not found"
ErrWalletNotFound == "wallet not found"
ErrUsernameExists == "username already exists"
ErrDuplicateKey == "duplicate key value violates unique constraint"
ErrStorage == "storage error"
ErrCanceled == "context canceled"
ErrUserNotFound == "user not found"
ErrRedisNil == "redis: nil"
ErrRedisDown == "redis: connection refused"

\* c.cacheRepo.Set(ctx, cacheKey, user, 5*time.Minute): minutes an entry lives
CacheTTL == 5

VARIABLES
    users,       \* table users: set of rows [id, username, dni]
    wallets,     \* table wallets: id -> row [id, exists, userID, currency, balance]
    nextUserID,  \* next identifier uuid.New yields for a user
    nextWalletID,\* next identifier uuid.New yields for a wallet
    pc,          \* worker -> position in its call
    call,        \* worker -> the call it serves: its kind and its arguments
    fromWallet,  \* worker -> in-memory *domain.Wallet (wallet, fromWallet)
    toWallet,    \* worker -> in-memory *domain.Wallet (toWallet)
    user,        \* worker -> in-memory *domain.User
    txn,         \* worker -> the gorm transaction: none, open, committed, rolledback
                 \*           (fn failed), aborted (COMMIT failed)
    result,      \* worker -> error value returned by the call ("" while running)
    hist,        \* worker -> history of the call (observation only)
    cache,       \* Redis: key -> entry [val, ttl]
    cpos,        \* client of the user repository -> position in its call
    creq,        \* client -> the repository call it makes: kind and arguments
    cuser,       \* client -> in-memory *domain.User read from the store
    cret,        \* client -> what the call returned: [err, user]
    cobs,        \* client -> history of the call (observation only)
    elapsed,     \* minutes gone by: for a key, since the entry's snapshot was
                 \* read from the store and since it was Set; for a client,
                 \* since its call read the store (observation only)
    rpos,        \* client of the wallet and transaction repositories -> position
    rreq,        \* client -> the repository call it makes: kind and wallet rows
    rret,        \* client -> error value the call returned ("" while running)
    rtxns,       \* client -> the gorm transactions of the call, outermost first
    robs         \* client -> history of the call (observation only)

\* the variables of the ledger and provisioning use cases, table users apart
ledgerVars == <<wallets, nextUserID, nextWalletID, pc, call, fromWallet,
                toWallet, user, txn, result, hist>>

\* the variables of the cache decorator and its clients
cacheVars == <<cache, cpos, creq, cuser, cret, cobs, elapsed>>

\* the variables of the clients of the wallet and transaction repositories
repoVars == <<rpos, rreq, rret, rtxns, robs>>

\* the variables of the use cases, the tables apart
workerVars == <<nextUserID, nextWalletID, pc, call, fromWallet, toWallet, user,
                txn, result, hist>>

vars == <<users, ledgerVars, cacheVars, repoVars>>

NoWallet ==
    [id |-> 0, exists |-> FALSE, userID |-> 0, currency |-> "", balance |-> 0]
NoUser == [id |-> 0, username |-> "", dni |-> ""]
NoCall ==
    [kind |-> "", walletID |-> 0, from |-> 0, to |-> 0, amount |-> 0,
     username |-> "", dni |-> ""]

\* mutant: a new wallet starts with a balance of 1
NewWalletFunded(userID) ==
    [id |-> 0, exists |-> TRUE, userID |-> userID, currency |-> DefaultCurrency,
     balance |-> DefaultBalance + 1]

\* domain.NewWallet
NewWallet(userID) ==
    [id |-> 0, exists |-> TRUE, userID |-> userID, currency |-> DefaultCurrency,
     balance |-> DefaultBalance]

\* history of a call: the store when the call was made, whether another worker
\* wrote to the store since, the number of statements the call issued (BEGIN
\* and COMMIT included), the statements of the call that wrote, the net change
\* those writes made to the sum of all balances, and the failure the
\* environment injected
NoHist ==
    [wallets |-> <<>>, users |-> {}, interfered |-> FALSE, stmts |-> 0,
     writes |-> {}, delta |-> 0, fault |-> ""]

StartHist == [NoHist EXCEPT !.wallets = wallets, !.users = users]

\* the text of a Redis value: a sequence of JSON tokens; the empty text is
\* what Get yields for a key that holds nothing
EmptyText == <<>>

\* a key of the cache that holds nothing
NoEntry == [val |-> EmptyText, ttl |-> 0]

\* cacheKey := fmt.Sprintf("user:%s", id)
CacheKey(id) == "user:" \o ToString(id)

Keys == {CacheKey(id) : id \in FindIds}

\* no minute has gone by
NoAge == [sinceRead |-> 0, sinceSet |-> 0]
NoElapsed == [entry |-> [k \in Keys |-> NoAge], call |-> [c \in Clients |-> 0]]

NoReq == [kind |-> "", id |-> 0, username |-> "", user |-> NoUser]
NoRet == [err |-> "", user |-> NoUser]

\* history of a repository call: how the cache answered Get ("hit", "miss",
\* "unavailable", "corrupt"), table users when the store was read, the
\* failure the environment injected into that read, whether the store was
\* read, and whether Set failed
NoObs ==
    [path |-> "", store |-> {}, fault |-> "", read |-> FALSE, setFailed |-> FALSE]

\* a call on the wallet or transaction repository: its kind, the row handed
\* to Update (the row the outer fn updates, for a nested unit of work), the
\* row the inner fn updates, and whether the outer fn returns an error after
\* the inner WithTransaction returned nil
NoRepoReq == [kind |-> "", wallet |-> NoWallet, inner |-> NoWallet, fail |-> FALSE]

\* history of such a call: table wallets when the call was made, whether
\* another client wrote since, the identifiers the call wrote in its outer
\* and in its inner fn, and the failure the environment injected
NoRepoObs ==
    [store |-> <<>>, interfered |-> FALSE, outer |-> {}, inner |-> {}, fault |-> ""]

Init ==
    /\ users = {[id |-> i, username |-> "u" \o ToString(i), dni |-> "d" \o ToString(i)] :
                    i \in InitIds}
    /\ wallets = [i \in Ids |->
                     IF i \in InitIds
                     THEN [NewWallet(i) EXCEPT !.id = i, !.balance = InitBalance[i]]
                     ELSE NoWallet]
    /\ nextUserID = 4
    /\ nextWalletID = 4
    /\ pc = [w \in Workers |-> "idle"]
    /\ call = [w \in Workers |-> NoCall]
    /\ fromWallet = [w \in Workers |-> NoWallet]
    /\ toWallet = [w \in Workers |-> NoWallet]
    /\ user = [w \in Workers |-> NoUser]
    /\ txn = [w \in Workers |-> "none"]
    /\ result = [w \in Workers |-> ""]
    /\ hist = [w \in Workers |-> NoHist]
    /\ cache = [k \in Keys |-> NoEntry]
    /\ cpos = [c \in Clients |-> "idle"]
    /\ creq = [c \in Clients |-> NoReq]
    /\ cuser = [c \in Clients |-> NoUser]
    /\ cret = [c \in Clients |-> NoRet]
    /\ cobs = [c \in Clients |-> NoObs]
    /\ elapsed = NoElapsed
    /\ rpos = [c \in Clients |-> "idle"]
    /\ rreq = [c \in Clients |-> NoRepoReq]
    /\ rret = [c \in Clients |-> ""]
    /\ rtxns = [c \in Clients |-> <<>>]
    /\ robs = [c \in Clients |-> NoRepoObs]

\* ------------------------------------------------------------ environment
\* what the environment does to a statement: nothing, a storage failure, or
\* the call's context being done when the statement is issued
Faults == {"", ErrStorage, ErrCanceled}

\* the error of a statement under f, before it touches a row
StmtErr(f) == IF f = "" THEN Nil ELSE f

\* history: w issued a statement that neither wrote nor met a failure of the
\* environment
Issued(w) == [hist EXCEPT ![w].stmts = @ + 1]

\* history: the statement w issued failed with e for a reason of the environment
Faulted(w, e) ==
    [hist EXCEPT ![w] = [@ EXCEPT !.fault = e, !.stmts = @ + 1]]

\* history: a statement of w wrote the store (tag names the statement) and
\* changed the sum of the balances by d
Wrote(w, tag, d) ==
    [v \in Workers |->
        IF v = w
        THEN [hist[v] EXCEPT !.writes = @ \cup {tag}, !.delta = @ + d,
                             !.stmts = @ + 1]
        ELSE IF pc[v] # "idle" THEN [hist[v] EXCEPT !.interfered = TRUE]
        ELSE hist[v]]

\* ------------------------------------------------- transaction manager
\* the call returns e without having opened a transaction
Reject(w, e) ==
    /\ pc' = [pc EXCEPT ![w] = "done"]
    /\ result' = [result EXCEPT ![w] = e]
    /\ txn' = [txn EXCEPT ![w] = "none"]

\* history of a call that starts and has issued n statements, the last of
\* them BEGIN, f being the failure it met so far
BeginHist(n, f) == [StartHist EXCEPT !.fault = f, !.stmts = n]

\* mutant: the transaction begins and fn is never called
WithTransactionBlocked(w, first, f) ==
    /\ pc' = [pc EXCEPT ![w] = "blocked"]
    /\ txn' = [txn EXCEPT ![w] = "open"]
    /\ result' = result

\* WithTransaction: db.Transaction begins a transaction and calls fn(ctx), whose
\* first statement is at position first; when BEGIN fails fn is not called
WithTransaction(w, first, f) ==
    IF f # ""
    THEN Reject(w, StmtErr(f))
    ELSE /\ pc' = [pc EXCEPT ![w] = first]
         /\ txn' = [txn EXCEPT ![w] = "open"]
         /\ result' = result

\* fn returned e: db.Transaction rolls the transaction back and returns e.
\* The transaction holds no statement of fn, so the store is not touched.
FnFailed(w, e) ==
    /\ pc' = [pc EXCEPT ![w] = "done"]
    /\ result' = [result EXCEPT ![w] = e]
    /\ txn' = [txn EXCEPT ![w] = "rolledback"]

\* fn returned nil: db.Transaction commits.  COMMIT fails when the context is
\* done or the connection is lost, and the error is returned to the caller.
Commit(w) ==
    /\ pc[w] = "commit"
    /\ \E f \in Faults :
          /\ pc' = [pc EXCEPT ![w] = "done"]
          /\ result' = [result EXCEPT ![w] = StmtErr(f)]
          /\ txn' = [txn EXCEPT ![w] = IF f = "" THEN "committed" ELSE "aborted"]
          /\ hist' = IF f = "" THEN Issued(w) ELSE Faulted(w, f)
    /\ UNCHANGED <<users, wallets, nextUserID, nextWalletID, call,
                   fromWallet, toWallet, user>>
    /\ UNCHANGED <<cacheVars, repoVars>>

\* ------------------------------------------------------ wallet repository
\* mutant: a missing row is not reported
WalletFindErrNoRow(f, id) == StmtErr(f)

\* postgresWalletRepository.FindByID: the error it returns under f, or Nil
WalletFindErr(f, id) ==
    IF f # "" THEN StmtErr(f)
    ELSE IF ~wallets[id].exists THEN ErrWalletNotFound
    ELSE Nil

\* mutant: the UPDATE has no WHERE clause and sets every balance
UpdateWalletEveryRow(row) ==
    [id \in Ids |-> IF wallets[id].exists \/ id = row.id
                    THEN [row EXCEPT !.id = id, !.userID = wallets[id].userID]
                    ELSE wallets[id]]

\* postgresWalletRepository.Update: db.Save writes every column of the row
\* with the wallet's id, and inserts the row when no row has that id
UpdateWallet(row) == [wallets EXCEPT ![row.id] = row]

\* ---------------------------------------------------- walletUsecase.Recharge
\* mutant: the guard lets a zero amount through
AmountNegative(amount) == amount < 0

\* if amount <= 0
AmountNotPositive(amount) == amount <= 0

Recharge(w, walletID, amount) ==
    /\ pc[w] = "idle"
    /\ call' = [call EXCEPT ![w] =
                   [NoCall EXCEPT !.kind = "Recharge", !.walletID = walletID,
                                  !.amount = amount]]
    /\ IF AmountNotPositive(amount)
       THEN /\ Reject(w, ErrRechargeAmount)
            /\ hist' = [hist EXCEPT ![w] = StartHist]
       ELSE \E f \in Faults :
               /\ WithTransaction(w, "R_find", f)
               /\ hist' = [hist EXCEPT ![w] = BeginHist(1, f)]
    /\ UNCHANGED <<users, wallets, nextUserID, nextWalletID, fromWallet, toWallet,
                   user>>
    /\ UNCHANGED <<cacheVars, repoVars>>

\* wallet, err := FindByID(walletID); wallet.Balance += amount
Recharge_FindByID(w) ==
    /\ pc[w] = "R_find"
    /\ \E f \in Faults :
          LET e == WalletFindErr(f, call[w].walletID) IN
          IF e # Nil
          THEN /\ FnFailed(w, e)
               /\ hist' = IF f = "" THEN Issued(w) ELSE Faulted(w, f)
               /\ UNCHANGED fromWallet
          ELSE /\ fromWallet' = [fromWallet EXCEPT ![w] =
                       [wallets[call[w].walletID] EXCEPT
                            !.balance = @ + call[w].amount]]
               /\ pc' = [pc EXCEPT ![w] = "R_update"]
               /\ hist' = Issued(w)
               /\ UNCHANGED <<txn, result>>
    /\ UNCHANGED <<users, wallets, nextUserID, nextWalletID, call, toWallet,
                   user>>
    /\ UNCHANGED <<cacheVars, repoVars>>

\* return Update(wallet)
Recharge_Update(w) ==
    /\ pc[w] = "R_update"
    /\ \E f \in Faults :
          IF f # ""
          THEN /\ FnFailed(w, StmtErr(f))
               /\ hist' = Faulted(w, f)
               /\ UNCHANGED wallets
          ELSE /\ wallets' = UpdateWallet(fromWallet[w])
               /\ hist' = Wrote(w, "wallet",
                                fromWallet[w].balance - wallets[fromWallet[w].id].balance)
               /\ pc' = [pc EXCEPT ![w] = "commit"]
               /\ UNCHANGED <<txn, result>>
    /\ UNCHANGED <<users, nextUserID, nextWalletID, call, fromWallet,
                   toWallet, user>>
    /\ UNCHANGED <<cacheVars, repoVars>>

\* ---------------------------------------------------- walletUsecase.Transfer
\* mutant: the same-wallet check is missing
SameWalletNever(fromWalletID, toWalletID) == FALSE

\* if fromWalletID == toWalletID
SameWallet(fromWalletID, toWalletID) == fromWalletID = toWalletID

\* mutant: the balance check refuses a transfer of the whole balance
InsufficientFundsOrEqual(balance, amount) == balance <= amount

\* mutant: the balance check is missing
InsufficientFundsNever(balance, amount) == FALSE

\* mutant: the balance check is off by one
InsufficientFundsOffByOne(balance, amount) == balance + 1 < amount

\* if fromWallet.Balance < amount
InsufficientFunds(balance, amount) == balance < amount

Transfer(w, fromWalletID, toWalletID, amount) ==
    /\ pc[w] = "idle"
    /\ call' = [call EXCEPT ![w] =
                   [NoCall EXCEPT !.kind = "Transfer", !.from = fromWalletID,
                                  !.to = toWalletID, !.amount = amount]]
    /\ IF AmountNotPositive(amount)
       THEN /\ Reject(w, ErrTransferAmount)
            /\ hist' = [hist EXCEPT ![w] = StartHist]
       ELSE IF SameWallet(fromWalletID, toWalletID)
       THEN /\ Reject(w, ErrSameWallet)
            /\ hist' = [hist EXCEPT ![w] = StartHist]
       ELSE \E f \in Faults :
               /\ WithTransaction(w, "T_findFrom", f)
               /\ hist' = [hist EXCEPT ![w] = BeginHist(1, f)]
    /\ UNCHANGED <<users, wallets, nextUserID, nextWalletID, fromWallet, toWallet,
                   user>>
    /\ UNCHANGED <<cacheVars, repoVars>>

\* fromWallet, err := FindByID(fromWalletID): any error becomes "sender wallet
\* not found"; then the balance check
Transfer_FindFrom(w) ==
    /\ pc[w] = "T_findFrom"
    /\ \E f \in Faults :
          LET e == WalletFindErr(f, call[w].from)
              row == wallets[call[w].from] IN
          IF e # Nil
          THEN /\ FnFailed(w, ErrSenderNotFound)
               /\ hist' = IF f = "" THEN Issued(w) ELSE Faulted(w, f)
               /\ UNCHANGED fromWallet
          ELSE /\ fromWallet' = [fromWallet EXCEPT ![w] = row]
               /\ hist' = Issued(w)
               /\ IF InsufficientFunds(row.balance, call[w].amount)
                  THEN FnFailed(w, ErrInsufficientFunds)
                  ELSE /\ pc' = [pc EXCEPT ![w] = "T_findTo"]
                       /\ UNCHANGED <<txn, result>>
    /\ UNCHANGED <<users, wallets, nextUserID, nextWalletID, call, toWallet,
                   user>>
    /\ UNCHANGED <<cacheVars, repoVars>>

\* mutant: the sender keeps its balance
DebitNothing(balance, amount) == balance

\* fromWallet.Balance -= amount
Debit(balance, amount) == balance - amount

\* toWallet.Balance += amount
Credit(balance, amount) == balance + amount

\* toWallet, err := FindByID(toWalletID): any error becomes "receiver wallet
\* not found"; then fromWallet.Balance -= amount; toWallet.Balance += amount
Transfer_FindTo(w) ==
    /\ pc[w] = "T_findTo"
    /\ \E f \in Faults :
          LET e == WalletFindErr(f, call[w].to) IN
          IF e # Nil
          THEN /\ FnFailed(w, ErrReceiverNotFound)
               /\ hist' = IF f = "" THEN Issued(w) ELSE Faulted(w, f)
               /\ UNCHANGED <<fromWallet, toWallet>>
          ELSE /\ fromWallet' = [fromWallet EXCEPT ![w].balance =
                                      Debit(@, call[w].amount)]
               /\ toWallet' = [toWallet EXCEPT ![w] =
                       [wallets[call[w].to] EXCEPT !.balance =
                                      Credit(@, call[w].amount)]]
               /\ pc' = [pc EXCEPT ![w] = "T_updFrom"]
               /\ hist' = Issued(w)
               /\ UNCHANGED <<txn, result>>
    /\ UNCHANGED <<users, wallets, nextUserID, nextWalletID, call, user>>
    /\ UNCHANGED <<cacheVars, repoVars>>

\* Update(fromWallet)
Transfer_UpdateFrom(w) ==
    /\ pc[w] = "T_updFrom"
    /\ \E f \in Faults :
          IF f # ""
          THEN /\ FnFailed(w, StmtErr(f))
               /\ hist' = Faulted(w, f)
               /\ UNCHANGED wallets
          ELSE /\ wallets' = UpdateWallet(fromWallet[w])
               /\ hist' = Wrote(w, "from",
                                fromWallet[w].balance - wallets[fromWallet[w].id].balance)
               /\ pc' = [pc EXCEPT ![w] = "T_updTo"]
               /\ UNCHANGED <<txn, result>>
    /\ UNCHANGED <<users, nextUserID, nextWalletID, call, fromWallet,
                   toWallet, user>>
    /\ UNCHANGED <<cacheVars, repoVars>>

\* Update(toWallet); return nil
Transfer_UpdateTo(w) ==
    /\ pc[w] = "T_updTo"
    /\ \E f \in Faults :
          IF f # ""
          THEN /\ FnFailed(w, StmtErr(f))
               /\ hist' = Faulted(w, f)
               /\ UNCHANGED wallets
          ELSE /\ wallets' = UpdateWallet(toWallet[w])
               /\ hist' = Wrote(w, "to",
                                toWallet[w].balance - wallets[toWallet[w].id].balance)
               /\ pc' = [pc EXCEPT ![w] = "commit"]
               /\ UNCHANGED <<txn, result>>
    /\ UNCHANGED <<users, nextUserID, nextWalletID, call, fromWallet,
                   toWallet, user>>
    /\ UNCHANGED <<cacheVars, repoVars>>

\* -------------------------------------------------------- user repository
\* mutant: the lookup never finds a row
UsernameStoredNever(username) == FALSE

\* postgresUserRepository.FindByUsername finds a row
UsernameStored(username) == \E u \in users : u.username = username

\* the unique constraints of table users reject the row
UniqueViolation(row) ==
    \E u \in users : u.id = row.id \/ u.username = row.username \/ u.dni = row.dni

\* ------------------------------------------------------- userUsecase.Create
\* existingUser, err := FindByUsername(username) through the cache decorator,
\* which passes the call to the PostgreSQL repository; a failed lookup is
\* taken for "no such user".  Then the user is built and WithTransaction
\* is entered.
Create(w, username, dni) ==
    /\ pc[w] = "idle"
    /\ call' = [call EXCEPT ![w] =
                   [NoCall EXCEPT !.kind = "Create", !.username = username,
                                  !.dni = dni]]
    /\ \E f \in Faults :
          IF f = "" /\ UsernameStored(username)
          THEN /\ Reject(w, ErrUsernameExists)
               /\ hist' = [hist EXCEPT ![w] = BeginHist(1, "")]
               /\ UNCHANGED <<user, nextUserID>>
          ELSE /\ user' = [user EXCEPT ![w] =
                       [id |-> nextUserID, username |-> username, dni |-> dni]]
               /\ nextUserID' = nextUserID + 1
               /\ \E g \in (IF f = ErrCanceled THEN {ErrCanceled} ELSE Faults) :
                     /\ WithTransaction(w, "C_saveUser", g)
                     /\ hist' = [hist EXCEPT ![w] =
                                    BeginHist(2, IF f # "" THEN f ELSE g)]
    /\ UNCHANGED <<users, wallets, nextWalletID, fromWallet, toWallet>>
    /\ UNCHANGED <<cacheVars, repoVars>>

\* userRepo.Save(user); wallet := NewWallet(user.ID); wallet.ID = uuid.New()
Create_SaveUser(w) ==
    /\ pc[w] = "C_saveUser"
    /\ \E f \in Faults :
          IF f # "" \/ UniqueViolation(user[w])
          THEN /\ FnFailed(w, IF f # "" THEN StmtErr(f) ELSE ErrDuplicateKey)
               /\ hist' = IF f = "" THEN Issued(w) ELSE Faulted(w, f)
               /\ UNCHANGED <<users, fromWallet, nextWalletID>>
          ELSE /\ users' = users \cup {user[w]}
               /\ fromWallet' = [fromWallet EXCEPT ![w] =
                       [NewWallet(user[w].id) EXCEPT !.id = nextWalletID]]
               /\ nextWalletID' = nextWalletID + 1
               /\ hist' = Wrote(w, "user", 0)
               /\ pc' = [pc EXCEPT ![w] = "C_saveWallet"]
               /\ UNCHANGED <<txn, result>>
    /\ UNCHANGED <<wallets, nextUserID, call, toWallet, user>>
    /\ UNCHANGED <<cacheVars, repoVars>>

\* postgresWalletRepository.Save(wallet): INSERT
SaveWallet(row) == [wallets EXCEPT ![row.id] = row]

\* walletRepo.Save(wallet); return nil
Create_SaveWallet(w) ==
    /\ pc[w] = "C_saveWallet"
    /\ \E f \in Faults :
          IF f # ""
          THEN /\ FnFailed(w, StmtErr(f))
               /\ hist' = Faulted(w, f)
               /\ UNCHANGED wallets
          ELSE /\ wallets' = SaveWallet(fromWallet[w])
               /\ hist' = Wrote(w, "wallet", 0)
               /\ pc' = [pc EXCEPT ![w] = "commit"]
               /\ UNCHANGED <<txn, result>>
    /\ UNCHANGED <<users, nextUserID, nextWalletID, call, fromWallet,
                   toWallet, user>>
    /\ UNCHANGED <<cacheVars, repoVars>>

Next ==
    \E w \in Workers :
        \/ \E id \in ArgIds, a \in Amounts : Recharge(w, id, a)
        \/ Recharge_FindByID(w)
        \/ Recharge_Update(w)
        \/ \E from \in ArgIds, to \in ArgIds, a \in Amounts : Transfer(w, from, to, a)
        \/ Transfer_FindFrom(w)
        \/ Transfer_FindTo(w)
        \/ Transfer_UpdateFrom(w)
        \/ Transfer_UpdateTo(w)
        \/ \E un \in Usernames, dni \in DNIs : Create(w, un, dni)
        \/ Create_SaveUser(w)
        \/ Create_SaveWallet(w)
        \/ Commit(w)

Spec == Init /\ [][Next]_vars


\* ------------------------------------------------- Redis cache repository
\* mutant: the values of Username and DNI change places
MarshalSwapped(u) ==
    <<"{", "ID", ToString(u.id), "Username", u.dni, "DNI", u.username, "}">>

\* json.Marshal(user): the object as JSON text, its members under the names
\* of the struct's fields (domain.User has no json tags).  Name and the two
\* timestamps are not modelled.
Marshal(u) ==
    <<"{", "ID", ToString(u.id), "Username", u.username, "DNI", u.dni, "}">>

\* the identifier a JSON string spells, 0 when it spells none
ParseID(str) ==
    IF \E i \in Ids : ToString(i) = str
    THEN CHOOSE i \in Ids : ToString(i) = str
    ELSE 0

\* json.Unmarshal([]byte(text), &user): the error and the user it fills in;
\* text that is cut short is a syntax error
Unmarshal(text) ==
    IF /\ Len(text) = 8
       /\ text[1] = "{" /\ text[8] = "}"
       /\ text[2] = "ID" /\ text[4] = "Username" /\ text[6] = "DNI"
    THEN [err |-> Nil,
          user |-> [id |-> ParseID(text[3]), username |-> text[5], dni |-> text[7]]]
    ELSE [err |-> "unexpected end of JSON input", user |-> NoUser]

\* redisCacheRepository.Get: client.Get(ctx, key).Result(); a key that holds
\* nothing yields redis.Nil, an unreachable server its error
RedisGet(key, down) ==
    IF down THEN [val |-> EmptyText, err |-> ErrRedisDown]
    ELSE IF cache[key].val = EmptyText THEN [val |-> EmptyText, err |-> ErrRedisNil]
    ELSE [val |-> cache[key].val, err |-> Nil]

\* mutant: the entry lives twice as long as asked
RedisSetTwice(key, value, ttl) ==
    [cache EXCEPT ![key] = [val |-> Marshal(value), ttl |-> ttl + ttl]]

\* redisCacheRepository.Set: json.Marshal(value), client.Set(ctx, key, json, ttl)
RedisSet(key, value, ttl) ==
    [cache EXCEPT ![key] = [val |-> Marshal(value), ttl |-> ttl]]

\* ---------------------------------------------------- user repository
\* postgresUserRepository.FindByID under f: the error and the user
UserFindByID(f, id) ==
    IF f # "" THEN [err |-> StmtErr(f), user |-> NoUser]
    ELSE IF \E u \in users : u.id = id
    THEN [err |-> Nil, user |-> CHOOSE u \in users : u.id = id]
    ELSE [err |-> ErrUserNotFound, user |-> NoUser]

\* mutant: the lookup by username answers "user not found" for every name
UserFindByUsernameBlind(f, username) == [err |-> ErrUserNotFound, user |-> NoUser]

\* postgresUserRepository.FindByUsername under f: the error and the user
UserFindByUsername(f, username) ==
    IF f # "" THEN [err |-> StmtErr(f), user |-> NoUser]
    ELSE IF UsernameStored(username)
    THEN [err |-> Nil, user |-> CHOOSE u \in users : u.username = username]
    ELSE [err |-> ErrUserNotFound, user |-> NoUser]

\* ------------------------------------------------- cachedUserRepository
\* the call of client c returns ret
Returns(c, ret) ==
    /\ cpos' = [cpos EXCEPT ![c] = "done"]
    /\ cret' = [cret EXCEPT ![c] = ret]

\* the cache answers: err == nil && cachedUserJSON != "" and the text
\* deserializes
CacheHit(got) ==
    got.err = Nil /\ got.val # EmptyText /\ Unmarshal(got.val).err = Nil

\* how the cache answered a Get
GetPath(got) ==
    IF CacheHit(got) THEN "hit"
    ELSE IF got.err = ErrRedisNil THEN "miss"
    ELSE IF got.err # Nil THEN "unavailable"
    ELSE "corrupt"

\* FindByID, steps 1 and 2: Get the key; on a hit return the deserialized user
CachedFindByID(c, id) ==
    /\ cpos[c] = "idle"
    /\ creq' = [creq EXCEPT ![c] = [NoReq EXCEPT !.kind = "FindByID", !.id = id]]
    /\ \E down \in BOOLEAN :
          LET got == RedisGet(CacheKey(id), down) IN
          /\ cobs' = [cobs EXCEPT ![c] = [NoObs EXCEPT !.path = GetPath(got)]]
          /\ IF CacheHit(got)
             THEN Returns(c, [err |-> Nil, user |-> Unmarshal(got.val).user])
             ELSE /\ cpos' = [cpos EXCEPT ![c] = "F_find"]
                  /\ UNCHANGED cret
    /\ UNCHANGED <<users, ledgerVars, repoVars, cache, cuser, elapsed>>

\* mutant: every failure of the store is reported as a storage error
MissErrorStorage(err) == ErrStorage

\* mutant: every failure of the store is reported as "user not found"
MissErrorNotFound(err) == ErrUserNotFound

\* if err != nil { return nil, err }
MissError(err) == err

\* FindByID, step 3: user, err := c.nextRepo.FindByID(ctx, id)
CachedFindByID_Find(c) ==
    /\ cpos[c] = "F_find"
    /\ \E f \in Faults :
          LET r == UserFindByID(f, creq[c].id) IN
          /\ cobs' = [cobs EXCEPT ![c] =
                         [@ EXCEPT !.store = users, !.fault = f, !.read = TRUE]]
          /\ IF r.err # Nil
             THEN /\ Returns(c, [err |-> MissError(r.err), user |-> NoUser])
                  /\ UNCHANGED cuser
             ELSE /\ cuser' = [cuser EXCEPT ![c] = r.user]
                  /\ cpos' = [cpos EXCEPT ![c] = "F_set"]
                  /\ UNCHANGED cret
    /\ UNCHANGED <<users, ledgerVars, repoVars, cache, creq, elapsed>>

\* mutant: a failed cache write fails the read
SetErrorReturned(err) == err

\* c.cacheRepo.Set(...): the error Set returns is dropped
SetError(err) == Nil

\* FindByID, step 4: Set the key for 5 minutes, return user
CachedFindByID_Set(c) ==
    /\ cpos[c] = "F_set"
    /\ \E down \in BOOLEAN :
          LET e == SetError(IF down THEN ErrRedisDown ELSE Nil) IN
          /\ cache' = IF down THEN cache
                      ELSE RedisSet(CacheKey(creq[c].id), cuser[c], CacheTTL)
          /\ elapsed' = IF down THEN elapsed
                        ELSE [elapsed EXCEPT !.entry[CacheKey(creq[c].id)] =
                                 [sinceRead |-> elapsed.call[c], sinceSet |-> 0]]
          /\ cobs' = [cobs EXCEPT ![c].setFailed = down]
          /\ Returns(c, IF e # Nil THEN [err |-> e, user |-> NoUser]
                        ELSE [err |-> Nil, user |-> cuser[c]])
    /\ UNCHANGED <<users, ledgerVars, repoVars, creq, cuser>>

\* Save: return c.nextRepo.Save(ctx, user), one INSERT
CachedSave(c, u) ==
    /\ cpos[c] = "idle"
    /\ creq' = [creq EXCEPT ![c] = [NoReq EXCEPT !.kind = "Save", !.id = u.id,
                                                 !.user = u]]
    /\ \E f \in Faults :
          /\ cobs' = [cobs EXCEPT ![c] = [NoObs EXCEPT !.store = users, !.fault = f]]
          /\ IF f # "" \/ UniqueViolation(u)
             THEN /\ Returns(c, [err |-> IF f # "" THEN StmtErr(f) ELSE ErrDuplicateKey,
                                 user |-> NoUser])
                  /\ UNCHANGED users
             ELSE /\ users' = users \cup {u}
                  /\ Returns(c, [err |-> Nil, user |-> NoUser])
    /\ UNCHANGED <<ledgerVars, repoVars, cache, cuser, elapsed>>

\* FindByUsername: return c.nextRepo.FindByUsername(ctx, username)
CachedFindByUsername(c, username) ==
    /\ cpos[c] = "idle"
    /\ creq' = [creq EXCEPT ![c] = [NoReq EXCEPT !.kind = "FindByUsername",
                                                 !.username = username]]
    /\ \E f \in Faults :
          /\ cobs' = [cobs EXCEPT ![c] =
                         [NoObs EXCEPT !.store = users, !.fault = f, !.read = TRUE]]
          /\ Returns(c, UserFindByUsername(f, username))
    /\ UNCHANGED <<users, ledgerVars, repoVars, cache, cuser, elapsed>>

\* the caller takes the result; the client is free for its next call
CallReturns(c) ==
    /\ cpos[c] = "done"
    /\ cpos' = [cpos EXCEPT ![c] = "idle"]
    /\ creq' = [creq EXCEPT ![c] = NoReq]
    /\ cuser' = [cuser EXCEPT ![c] = NoUser]
    /\ cret' = [cret EXCEPT ![c] = NoRet]
    /\ cobs' = [cobs EXCEPT ![c] = NoObs]
    /\ elapsed' = [elapsed EXCEPT !.call[c] = 0]
    /\ UNCHANGED <<users, ledgerVars, repoVars, cache>>

\* ------------------------------------------------- environment of the cache
\* the time to live of the entry under k is over: Redis drops the entry
Expire(k) ==
    /\ cache[k].ttl > 0
    /\ cache' = [cache EXCEPT ![k] = NoEntry]
    /\ elapsed' = [elapsed EXCEPT !.entry[k] = NoAge]
    /\ UNCHANGED <<users, ledgerVars, repoVars, cpos, creq, cuser, cret, cobs>>

\* the text under a key is damaged: its end is lost
Corrupt(k) ==
    /\ Unmarshal(cache[k].val).err = Nil
    /\ cache' = [cache EXCEPT ![k].val = SubSeq(@, 1, Len(@) - 1)]
    /\ UNCHANGED <<users, ledgerVars, repoVars, cpos, creq, cuser, cret, cobs,
                   elapsed>>

\* the users a client hands to Save: a new user, one with the identifier
\* and one with the username of a stored user
SaveUsers ==
    {[id |-> 4, username |-> "u4", dni |-> "d4"],
     [id |-> 1, username |-> "u4", dni |-> "d4"],
     [id |-> 4, username |-> "u1", dni |-> "d4"]}

CacheNext ==
    \/ \E c \in Clients :
          \/ \E id \in FindIds : CachedFindByID(c, id)
          \/ CachedFindByID_Find(c)
          \/ CachedFindByID_Set(c)
          \/ \E u \in SaveUsers : CachedSave(c, u)
          \/ \E un \in Usernames : CachedFindByUsername(c, un)
          \/ CallReturns(c)
    \/ \E k \in Keys : Expire(k)
    \/ \E k \in Keys : Corrupt(k)

\* the cache decorator and its clients
CacheSpec == Init /\ [][CacheNext]_vars

\* ------------------------------------------------------- the cache in time
\* a minute goes by: Redis counts every entry's time to live down and drops
\* the entries whose time is over; a call that has read the store and not
\* yet Set the key has waited a minute more
Tick ==
    /\ \/ \E k \in Keys : cache[k].ttl > 0
       \/ \E c \in Clients : cpos[c] = "F_set"
    /\ \A c \in Clients : cpos[c] = "F_set" => elapsed.call[c] < MaxDelay
    /\ cache' = [k \in Keys |->
                    IF cache[k].ttl <= 1 THEN NoEntry
                    ELSE [cache[k] EXCEPT !.ttl = @ - 1]]
    /\ elapsed' =
          [entry |-> [k \in Keys |->
                        IF cache[k].ttl <= 1 THEN NoAge
                        ELSE [sinceRead |-> elapsed.entry[k].sinceRead + 1,
                              sinceSet |-> elapsed.entry[k].sinceSet + 1]],
           call |-> [c \in Clients |->
                        IF cpos[c] = "F_set" THEN elapsed.call[c] + 1
                        ELSE elapsed.call[c]]]
    /\ UNCHANGED <<users, ledgerVars, repoVars, cpos, creq, cuser, cret, cobs>>

\* FindByID of the decorator and its clients as the minutes go by
TtlNext ==
    \/ \E c \in Clients :
          \/ \E id \in FindIds : CachedFindByID(c, id)
          \/ CachedFindByID_Find(c)
          \/ CachedFindByID_Set(c)
          \/ CallReturns(c)
    \/ Tick

TtlSpec == Init /\ [][TtlNext]_vars

\* ------------------------------ clients of the wallet and txn repositories
ErrForeignKey == "violates foreign key constraint"
ErrFn == "fn failed"

\* a wallet row a client hands to the repository
Row(id, userID, balance) ==
    [NewWallet(userID) EXCEPT !.id = id, !.balance = balance]

\* the rows a client hands to Update: of a stored and of an absent wallet,
\* owned by a stored user or by none
UpdateRows == {Row(id, uid, MaxAmount) : id \in {1, 5}, uid \in {1, 5}}

\* the rows the inner fn of a nested unit of work updates
InnerRows == {Row(2, 2, MaxAmount), Row(5, 1, 0)}

\* the error the database returns for the write of row under f: constraint
\* fk_wallets_users rejects a row whose user_id is no user's id
WalletWriteErr(f, row) ==
    IF f # "" THEN StmtErr(f)
    ELSE IF \A u \in users : u.id # row.userID THEN ErrForeignKey
    ELSE Nil

\* history: c starts a call
StartRepoObs(f) == [NoRepoObs EXCEPT !.store = wallets, !.fault = f]

\* history: a statement of c wrote the row with identifier id in its outer
\* (tag "outer") or inner fn
RepoWrote(c, tag, id) ==
    [d \in Clients |->
        IF d = c
        THEN IF tag = "outer" THEN [robs[d] EXCEPT !.outer = @ \cup {id}]
             ELSE [robs[d] EXCEPT !.inner = @ \cup {id}]
        ELSE IF rpos[d] # "idle" THEN [robs[d] EXCEPT !.interfered = TRUE]
        ELSE robs[d]]

\* the call of c returns e, its transactions being left as txs
RepoReturns(c, e, txs) ==
    /\ rpos' = [rpos EXCEPT ![c] = "done"]
    /\ rret' = [rret EXCEPT ![c] = e]
    /\ rtxns' = [rtxns EXCEPT ![c] = txs]

\* postgresWalletRepository.Update(ctx, wallet): one db.Save
WalletUpdate(c, row) ==
    /\ rpos[c] = "idle"
    /\ rreq' = [rreq EXCEPT ![c] = [NoRepoReq EXCEPT !.kind = "Update", !.wallet = row]]
    /\ \E f \in Faults :
          LET e == WalletWriteErr(f, row) IN
          /\ RepoReturns(c, e, <<>>)
          /\ IF e # Nil
             THEN /\ robs' = [robs EXCEPT ![c] = StartRepoObs(f)]
                  /\ UNCHANGED wallets
             ELSE /\ wallets' = UpdateWallet(row)
                  /\ robs' = [RepoWrote(c, "outer", row.id) EXCEPT
                                 ![c] = [StartRepoObs(f) EXCEPT !.outer = {row.id}]]
    /\ UNCHANGED <<users, workerVars, cacheVars>>

\* WithTransaction(ctx, fn) by a client whose fn updates a wallet and then
\* calls WithTransaction again: r.db.Transaction begins the outer transaction
NestedBegin(c, row, inner, fail) ==
    /\ rpos[c] = "idle"
    /\ rreq' = [rreq EXCEPT ![c] = [kind |-> "Nested", wallet |-> row,
                                    inner |-> inner, fail |-> fail]]
    /\ \E f \in Faults :
          /\ robs' = [robs EXCEPT ![c] = StartRepoObs(f)]
          /\ IF f # ""
             THEN RepoReturns(c, StmtErr(f), <<>>)
             ELSE /\ rpos' = [rpos EXCEPT ![c] = "N_outerWrite"]
                  /\ rtxns' = [rtxns EXCEPT ![c] = <<"open">>]
                  /\ UNCHANGED rret
    /\ UNCHANGED <<users, wallets, workerVars, cacheVars>>

\* outer fn: walletRepo.Update(ctx, wallet), a statement on r.db
Nested_OuterWrite(c) ==
    /\ rpos[c] = "N_outerWrite"
    /\ \E f \in Faults :
          LET e == WalletWriteErr(f, rreq[c].wallet) IN
          IF e # Nil
          THEN /\ RepoReturns(c, e, <<"rolledback">>)
               /\ robs' = [robs EXCEPT ![c].fault = f]
               /\ UNCHANGED wallets
          ELSE /\ wallets' = UpdateWallet(rreq[c].wallet)
               /\ robs' = RepoWrote(c, "outer", rreq[c].wallet.id)
               /\ rpos' = [rpos EXCEPT ![c] = "N_innerBegin"]
               /\ UNCHANGED <<rret, rtxns>>
    /\ UNCHANGED <<users, workerVars, cacheVars, rreq>>

\* outer fn: WithTransaction(ctx, inner fn).  ctx carries no transaction and
\* r.db is the connection pool, so r.db.Transaction begins a transaction of
\* its own
Nested_InnerBegin(c) ==
    /\ rpos[c] = "N_innerBegin"
    /\ \E f \in Faults :
          IF f # ""
          THEN /\ RepoReturns(c, StmtErr(f), <<"rolledback">>)
               /\ robs' = [robs EXCEPT ![c].fault = f]
          ELSE /\ rtxns' = [rtxns EXCEPT ![c] = Append(@, "open")]
               /\ rpos' = [rpos EXCEPT ![c] = "N_innerWrite"]
               /\ UNCHANGED <<rret, robs>>
    /\ UNCHANGED <<users, wallets, workerVars, cacheVars, rreq>>

\* inner fn: walletRepo.Update(ctx, wallet); return nil
Nested_InnerWrite(c) ==
    /\ rpos[c] = "N_innerWrite"
    /\ \E f \in Faults :
          LET e == WalletWriteErr(f, rreq[c].inner) IN
          IF e # Nil
          THEN /\ RepoReturns(c, e, <<"rolledback", "rolledback">>)
               /\ robs' = [robs EXCEPT ![c].fault = f]
               /\ UNCHANGED wallets
          ELSE /\ wallets' = UpdateWallet(rreq[c].inner)
               /\ robs' = RepoWrote(c, "inner", rreq[c].inner.id)
               /\ rpos' = [rpos EXCEPT ![c] = "N_innerCommit"]
               /\ UNCHANGED <<rret, rtxns>>
    /\ UNCHANGED <<users, workerVars, cacheVars, rreq>>

\* the inner db.Transaction commits; the outer fn then returns nil or, when
\* the client has it fail, an error, on which the outer transaction is
\* rolled back
Nested_InnerCommit(c) ==
    /\ rpos[c] = "N_innerCommit"
    /\ \E f \in Faults :
          IF f # ""
          THEN /\ RepoReturns(c, StmtErr(f), <<"rolledback", "aborted">>)
               /\ robs' = [robs EXCEPT ![c].fault = f]
          ELSE IF rreq[c].fail
          THEN /\ RepoReturns(c, ErrFn, <<"rolledback", "committed">>)
               /\ UNCHANGED robs
          ELSE /\ rtxns' = [rtxns EXCEPT ![c] = <<"open", "committed">>]
               /\ rpos' = [rpos EXCEPT ![c] = "N_outerCommit"]
               /\ UNCHANGED <<rret, robs>>
    /\ UNCHANGED <<users, wallets, workerVars, cacheVars, rreq>>

\* the outer db.Transaction commits
Nested_OuterCommit(c) ==
    /\ rpos[c] = "N_outerCommit"
    /\ \E f \in Faults :
          /\ RepoReturns(c, StmtErr(f),
                         <<IF f = "" THEN "committed" ELSE "aborted", rtxns[c][2]>>)
          /\ robs' = [robs EXCEPT ![c].fault = f]
    /\ UNCHANGED <<users, wallets, workerVars, cacheVars, rreq>>

\* the caller takes the result; the client is free for its next call
RepoCallReturns(c) ==
    /\ rpos[c] = "done"
    /\ rpos' = [rpos EXCEPT ![c] = "idle"]
    /\ rreq' = [rreq EXCEPT ![c] = NoRepoReq]
    /\ rret' = [rret EXCEPT ![c] = ""]
    /\ rtxns' = [rtxns EXCEPT ![c] = <<>>]
    /\ robs' = [robs EXCEPT ![c] = NoRepoObs]
    /\ UNCHANGED <<users, wallets, workerVars, cacheVars>>

RepoNext ==
    \E c \in Clients :
        \/ \E row \in UpdateRows : WalletUpdate(c, row)
        \/ \E inner \in InnerRows, fail \in BOOLEAN :
              NestedBegin(c, Row(1, 1, MaxAmount), inner, fail)
        \/ Nested_OuterWrite(c)
        \/ Nested_InnerBegin(c)
        \/ Nested_InnerWrite(c)
        \/ Nested_InnerCommit(c)
        \/ Nested_OuterCommit(c)
        \/ RepoCallReturns(c)

\* the wallet and transaction repositories and their clients
RepoSpec == Init /\ [][RepoNext]_vars

\* --------------------------------------------------------- HTTP handlers
StatusOK == 200
StatusCreated == 201
StatusBadRequest == 400
StatusNotFound == 404
StatusConflict == 409
StatusInternalServerError == 500

\* err.Error(): the words of the message of an error value
Words(e) ==
    CASE e = ErrRechargeAmount -> <<"recharge", "amount", "must", "be", "positive">>
      [] e = ErrTransferAmount -> <<"transfer", "amount", "must", "be", "positive">>
      [] e = ErrSameWallet -> <<"cannot", "transfer", "to", "the", "same", "wallet">>
      [] e = ErrSenderNotFound -> <<"sender", "wallet", "not", "found">>
      [] e = ErrInsufficientFunds -> <<"insufficient", "funds">>
      [] e = ErrReceiverNotFound -> <<"receiver", "wallet", "not", "found">>
      [] e = ErrWalletNotFound -> <<"wallet", "not", "found">>
      [] e = ErrUsernameExists -> <<"username", "already", "exists">>
      [] e = ErrDuplicateKey ->
            <<"duplicate", "key", "value", "violates", "unique", "constraint">>
      [] e = ErrStorage -> <<"storage", "error">>
      [] e = ErrCanceled -> <<"context", "canceled">>
      [] OTHER -> <<>>

\* strings.Contains(s, substr), on words
Contains(s, substr) ==
    \E i \in 1 .. (Len(s) - Len(substr) + 1) :
        SubSeq(s, i, i + Len(substr) - 1) = substr

\* WalletHandler.Recharge: the status it answers with, bound telling whether
\* the body was parsed and err being what the use case returned
RechargeResponse(bound, err) ==
    IF ~bound THEN StatusBadRequest
    ELSE IF err = Nil THEN StatusOK
    ELSE IF Contains(Words(err), <<"not", "found">>) THEN StatusNotFound
    ELSE StatusInternalServerError

\* mutant: a transfer to the same wallet is not told apart
TransferResponseNoSameWallet(bound, err) ==
    IF ~bound THEN StatusBadRequest
    ELSE IF err = Nil THEN StatusOK
    ELSE IF Contains(Words(err), <<"insufficient", "funds">>) THEN StatusBadRequest
    ELSE IF Contains(Words(err), <<"not", "found">>) THEN StatusNotFound
    ELSE StatusInternalServerError

\* WalletHandler.Transfer
TransferResponse(bound, err) ==
    IF ~bound THEN StatusBadRequest
    ELSE IF err = Nil THEN StatusOK
    ELSE IF \/ Contains(Words(err), <<"insufficient", "funds">>)
            \/ Contains(Words(err), <<"cannot", "transfer", "to", "the", "same", "wallet">>)
    THEN StatusBadRequest
    ELSE IF Contains(Words(err), <<"not", "found">>) THEN StatusNotFound
    ELSE StatusInternalServerError

\* UserHandler.CreateUser
CreateUserResponse(bound, err) ==
    IF ~bound THEN StatusBadRequest
    ELSE IF err = Nil THEN StatusCreated
    ELSE IF Contains(Words(err), <<"username", "already", "exists">>) THEN StatusConflict
    ELSE StatusInternalServerError

\* ================================================================ claims
Done(w) == pc[w] = "done"

IsTransfer(w) == call[w].kind = "Transfer"

IsRecharge(w) == call[w].kind = "Recharge"

IsCreate(w) == call[w].kind = "Create"

\* the store is as it was when w's call was made
StoreAsAtCall(w) == wallets = hist[w].wallets /\ users = hist[w].users

\* the category of the spec's error taxonomy an error value of the use cases
\* belongs to.  The code tells the categories apart by the message alone:
\* of the errors of Create only "username already exists" is answered as a
\* conflict (part_001:56), every other one, the unique-constraint error of
\* the database included, as an internal error (part_001:60).
Category(e) ==
    CASE e \in {ErrRechargeAmount, ErrTransferAmount, ErrSameWallet} -> "InvalidArgument"
      [] e \in {ErrSenderNotFound, ErrReceiverNotFound, ErrWalletNotFound} -> "NotFound"
      [] e = ErrInsufficientFunds -> "FailedPrecondition"
      [] e = ErrUsernameExists -> "Conflict"
      [] OTHER -> "Internal"

\* C1: in every reachable state, under every interleaving of Recharge and
\* Transfer calls, every stored wallet balance is >= 0.
C1_BalanceNeverNegative == \A i \in Ids : wallets[i].balance >= 0

\* two Transfers that debit the same wallet ran interleaved and both committed
C1_Witness ==
    \E w \in Workers, v \in Workers :
        /\ w # v /\ Done(w) /\ Done(v) /\ IsTransfer(w) /\ IsTransfer(v)
        /\ call[w].from = call[v].from
        /\ result[w] = Nil /\ result[v] = Nil
        /\ hist[w].interfered /\ hist[v].interfered

\* C2: of two Transfers of X each from a wallet holding 1.5X to two distinct
\* receivers, both called while the wallet holds 1.5X and neither meeting a
\* failure of the environment, exactly one commits, the other fails with
\* "insufficient funds", and the wallet is left with 0.5X.
C2_ExactlyOneTransferCommits ==
    \A w \in Workers, v \in Workers :
        ( /\ w # v /\ Done(w) /\ Done(v) /\ IsTransfer(w) /\ IsTransfer(v)
          /\ call[w].from = call[v].from
          /\ call[w].amount = call[v].amount
          /\ call[w].amount > 0
          /\ call[w].to # call[v].to
          /\ call[w].to # call[w].from /\ call[v].to # call[v].from
          /\ 2 * hist[w].wallets[call[w].from].balance = 3 * call[w].amount
          /\ 2 * hist[v].wallets[call[v].from].balance = 3 * call[v].amount
          /\ hist[w].wallets[call[w].to].exists
          /\ hist[v].wallets[call[v].to].exists
          /\ hist[w].fault = "" /\ hist[v].fault = "" )
        => /\ \/ result[w] = Nil /\ result[v] = ErrInsufficientFunds
              \/ result[v] = Nil /\ result[w] = ErrInsufficientFunds
           /\ 2 * wallets[call[w].from].balance = call[w].amount

\* C3: a Transfer that commits leaves the sum of the stored balances of its
\* sender and its receiver as it found it: the changes its two writes make to
\* the stored balances add up to zero.
C3_TransferConservesSum ==
    \A w \in Workers :
        (Done(w) /\ IsTransfer(w) /\ result[w] = Nil) => hist[w].delta = 0

\* C4: when the fn of WithTransaction returns an error, the store holds none
\* of fn's writes (with no other call writing, it is as it was before the
\* call) and that error is returned; when fn returns nil and the commit
\* succeeds, the store holds all of fn's writes.
C4_WithTransactionAtomic ==
    \A w \in Workers :
        /\ (Done(w) /\ txn[w] = "rolledback")
              => /\ result[w] # Nil
                 /\ ~hist[w].interfered => StoreAsAtCall(w)
        /\ (Done(w) /\ txn[w] = "committed" /\ ~hist[w].interfered)
              => /\ result[w] = Nil
                 /\ IsRecharge(w) => wallets[call[w].walletID] = fromWallet[w]
                 /\ IsTransfer(w) => /\ wallets[call[w].from] = fromWallet[w]
                                     /\ wallets[call[w].to] = toWallet[w]
                 /\ IsCreate(w) => /\ user[w] \in users
                                   /\ wallets[fromWallet[w].id] = fromWallet[w]

\* C5: a Transfer whose persist of the sender succeeded and whose persist of
\* the receiver failed returns an error and leaves the stored balances of
\* sender and receiver as they were before the call.
C5_FailedCreditLeavesNoDebit ==
    \A w \in Workers :
        (Done(w) /\ IsTransfer(w) /\ hist[w].writes = {"from"} /\ ~hist[w].interfered)
        => /\ result[w] # Nil
           /\ wallets[call[w].from].balance = hist[w].wallets[call[w].from].balance
           /\ wallets[call[w].to].balance = hist[w].wallets[call[w].to].balance

\* C6: after a Create call, the store holds the call's User if and only if it
\* holds a Wallet owned by that User, and after a failed Create it holds
\* neither.
C6_UserIffWallet ==
    \A w \in Workers :
        (Done(w) /\ IsCreate(w))
        => LET userStored == \E u \in users : u.id = user[w].id
               walletStored == \E i \in Ids : wallets[i].exists
                                                /\ wallets[i].userID = user[w].id
           IN /\ userStored <=> walletStored
              /\ result[w] # Nil => ~userStored /\ ~walletStored

\* C7: when the context of a Recharge or Transfer is cancelled while its
\* transaction is open, no write of the call remains in the store (with no
\* other call writing, the store is as it was before the call).
C7_CancelLeavesNoWrite ==
    \A w \in Workers :
        ( /\ Done(w) /\ (IsRecharge(w) \/ IsTransfer(w))
          /\ hist[w].fault = ErrCanceled
          /\ txn[w] # "none"
          /\ ~hist[w].interfered )
        => StoreAsAtCall(w)

\* the wallet the statement at v's position reads, 0 when it is no read
ReadTarget(v) ==
    CASE pc[v] = "R_find" -> call[v].walletID
      [] pc[v] = "T_findFrom" -> call[v].from
      [] pc[v] = "T_findTo" -> call[v].to
      [] OTHER -> 0

\* C8: while a Transfer has its sender's debit in the store and its
\* receiver's credit not yet, no other call is about to read the sender or
\* the receiver from the store.
C8_NoIntermediateRead ==
    \A w \in Workers, v \in Workers :
        ( /\ w # v
          /\ pc[w] = "T_updTo"
          /\ wallets[call[w].from] = fromWallet[w]
          /\ wallets[call[w].to].balance # toWallet[w].balance )
        => ReadTarget(v) \notin {call[w].from, call[w].to}

\* C9: a Transfer for more than the sender's balance fails with "insufficient
\* funds" (FailedPrecondition) and writes nothing: a Transfer that gets past
\* the balance check loaded a balance >= amount; one that fails with
\* insufficient funds made no write; and when the sender held less than amount
\* at the call, no other call wrote and the environment injected no failure,
\* the result is insufficient funds and the store is unchanged.
C9_InsufficientFundsRejected ==
    \A w \in Workers :
        /\ pc[w] = "T_findTo" => fromWallet[w].balance >= call[w].amount
        /\ (Done(w) /\ result[w] = ErrInsufficientFunds)
              => /\ Category(result[w]) = "FailedPrecondition"
                 /\ hist[w].writes = {}
                 /\ txn[w] = "rolledback"
                 /\ fromWallet[w].balance < call[w].amount
        /\ ( /\ Done(w) /\ IsTransfer(w)
             /\ call[w].amount > 0
             /\ call[w].from # call[w].to
             /\ hist[w].wallets[call[w].from].exists
             /\ hist[w].wallets[call[w].from].balance < call[w].amount
             /\ hist[w].fault = ""
             /\ ~hist[w].interfered )
              => /\ result[w] = ErrInsufficientFunds
                 /\ StoreAsAtCall(w)

\* a Transfer for more than the balance its sender held was rejected
C9_Witness ==
    \E w \in Workers :
        /\ Done(w) /\ IsTransfer(w)
        /\ hist[w].wallets[call[w].from].balance > 0
        /\ hist[w].wallets[call[w].from].balance < call[w].amount
        /\ hist[w].wallets[call[w].to].exists
        /\ result[w] = ErrInsufficientFunds

\* C10: a Recharge or Transfer with amount <= 0 fails with InvalidArgument,
\* opens no transaction, issues no statement to the store and writes nothing.
C10_NonPositiveAmountRejected ==
    \A w \in Workers :
        (Done(w) /\ (IsRecharge(w) \/ IsTransfer(w)) /\ call[w].amount <= 0)
        => /\ result[w] = (IF IsRecharge(w) THEN ErrRechargeAmount ELSE ErrTransferAmount)
           /\ Category(result[w]) = "InvalidArgument"
           /\ txn[w] = "none"
           /\ hist[w].stmts = 0
           /\ hist[w].writes = {}
           /\ ~hist[w].interfered => StoreAsAtCall(w)

\* a Recharge of 0 and a Transfer of a negative amount were both rejected
C10_Witness ==
    \E w \in Workers, v \in Workers :
        /\ Done(w) /\ IsRecharge(w) /\ call[w].amount = 0
        /\ Done(v) /\ IsTransfer(v) /\ call[v].amount < 0
        /\ call[v].from # call[v].to
        /\ wallets[call[v].from].exists /\ wallets[call[v].to].exists

\* C11: a Transfer whose fromWalletID equals its toWalletID fails with
\* InvalidArgument whatever its amount, the wallet's balance and whether the
\* wallet exists; it opens no transaction, issues no statement and leaves
\* every stored balance as it was.
C11_SameWalletRejected ==
    \A w \in Workers :
        (Done(w) /\ IsTransfer(w) /\ call[w].from = call[w].to)
        => /\ Category(result[w]) = "InvalidArgument"
           /\ call[w].amount > 0 => result[w] = ErrSameWallet
           /\ txn[w] = "none"
           /\ hist[w].stmts = 0
           /\ hist[w].writes = {}
           /\ ~hist[w].interfered => StoreAsAtCall(w)

\* same-wallet Transfers of a positive amount were rejected for a wallet that
\* holds the amount and for a wallet that does not exist
C11_Witness ==
    \E w \in Workers, v \in Workers :
        /\ Done(w) /\ IsTransfer(w) /\ call[w].from = call[w].to
        /\ call[w].amount > 0
        /\ hist[w].wallets[call[w].from].exists
        /\ hist[w].wallets[call[w].from].balance >= call[w].amount
        /\ result[w] = ErrSameWallet
        /\ Done(v) /\ IsTransfer(v) /\ call[v].from = call[v].to
        /\ call[v].amount > 0
        /\ ~hist[v].wallets[call[v].from].exists
        /\ result[v] = ErrSameWallet

\* C12: a Recharge of amount > 0 that meets no failure of the environment
\* commits when its wallet exists, and the write of a committed Recharge
\* raises the wallet's stored balance by exactly amount; when the wallet is
\* absent the Recharge fails with "wallet not found" (NotFound) and has
\* written nothing, so no wallet is created or changed.
C12_RechargeAddsAmount ==
    \A w \in Workers :
        (Done(w) /\ IsRecharge(w) /\ call[w].amount > 0)
        => /\ (hist[w].fault = "" /\ hist[w].wallets[call[w].walletID].exists)
                 => result[w] = Nil
           /\ result[w] = Nil
                 => /\ txn[w] = "committed"
                    /\ hist[w].writes = {"wallet"}
                    /\ hist[w].delta = call[w].amount
           /\ (hist[w].fault = "" /\ ~hist[w].wallets[call[w].walletID].exists
                  /\ ~hist[w].interfered)
                 => /\ result[w] = ErrWalletNotFound
                    /\ StoreAsAtCall(w)
           /\ result[w] = ErrWalletNotFound
                 => /\ Category(result[w]) = "NotFound"
                    /\ hist[w].writes = {}

\* the wallets of the store owned by user id
WalletsOf(id) == {i \in Ids : wallets[i].exists /\ wallets[i].userID = id}

\* C13: when Create succeeds, the store holds the new User and exactly one
\* Wallet owned by it; the Wallet the call stored has balance 0 and currency
\* "USD", and it is what the store holds unless another call wrote since.
C13_CreateYieldsOneEmptyWallet ==
    \A w \in Workers :
        (Done(w) /\ IsCreate(w) /\ result[w] = Nil)
        => /\ user[w] \in users
           /\ Cardinality(WalletsOf(user[w].id)) = 1
           /\ fromWallet[w].id \in WalletsOf(user[w].id)
           /\ fromWallet[w].balance = 0
           /\ fromWallet[w].currency = "USD"
           /\ wallets[fromWallet[w].id].currency = "USD"
           /\ ~hist[w].interfered => wallets[fromWallet[w].id] = fromWallet[w]

\* a Create succeeded and the store holds the wallet it stored
C13_Witness ==
    \E w \in Workers :
        /\ Done(w) /\ IsCreate(w) /\ result[w] = Nil
        /\ user[w] \in users
        /\ fromWallet[w].userID = user[w].id
        /\ wallets[fromWallet[w].id] = fromWallet[w]

\* the username of w's Create belonged to a stored user when the call was made
UsernameTakenAtCall(w) == \E u \in hist[w].users : u.username = call[w].username

\* C14: a Create whose username belongs to a stored User stores neither a
\* User nor a Wallet and fails; when its lookup by username is answered, it
\* fails with "username already exists" (Conflict) after that one statement,
\* with no transaction opened.
C14_DuplicateUsernameRejected ==
    \A w \in Workers :
        /\ (Done(w) /\ IsCreate(w) /\ UsernameTakenAtCall(w))
              => /\ result[w] # Nil
                 /\ hist[w].writes = {}
                 /\ user[w] \notin users
                 /\ hist[w].fault = ""
                       => /\ result[w] = ErrUsernameExists
                          /\ Category(result[w]) = "Conflict"
                          /\ txn[w] = "none"
                          /\ hist[w].stmts = 1
                          /\ ~hist[w].interfered => StoreAsAtCall(w)
        /\ (Done(w) /\ result[w] = ErrUsernameExists)
              => /\ txn[w] = "none"
                 /\ hist[w].writes = {}
                 /\ UsernameStored(call[w].username)

\* a Create with a stored username and an unused DNI was rejected by the
\* lookup
C14_Witness ==
    \E w \in Workers :
        /\ Done(w) /\ IsCreate(w) /\ UsernameTakenAtCall(w)
        /\ \A u \in users : u.dni # call[w].dni
        /\ result[w] = ErrUsernameExists
        /\ txn[w] = "none"

\* w's Create left neither its User nor a Wallet owned by it in the store
LeftNothing(w) == user[w] \notin users /\ WalletsOf(user[w].id) = {}

\* C15: under every interleaving of Create calls no two stored users share a
\* username or a DNI; of two Creates with the same username, with distinct
\* DNIs no stored user has, that meet no failure of the environment, at most one
\* commits, and one that fails does so with Conflict and leaves neither a
\* User nor a Wallet.
C15_ConcurrentCreateUnique ==
    /\ \A u \in users, v \in users :
          (u.username = v.username \/ u.dni = v.dni \/ u.id = v.id) => u = v
    /\ \A w \in Workers, v \in Workers :
          ( /\ w # v /\ Done(w) /\ Done(v) /\ IsCreate(w) /\ IsCreate(v)
            /\ call[w].username = call[v].username
            /\ call[w].dni # call[v].dni
            /\ \A u \in hist[w].users \cup hist[v].users :
                  u.dni \notin {call[w].dni, call[v].dni}
            /\ hist[w].fault = "" /\ hist[v].fault = "" )
          => /\ ~(result[w] = Nil /\ result[v] = Nil)
             /\ result[w] # Nil => /\ Category(result[w]) = "Conflict"
                                   /\ LeftNothing(w)

\* the DNI of w's Create belonged to a stored user when the call was made
DNITakenAtCall(w) == \E u \in hist[w].users : u.dni = call[w].dni

\* C16: a Create with a username no stored user has and a DNI that belongs
\* to a stored User, meeting no failure of the environment, fails with
\* Conflict and leaves neither a new User nor a new Wallet in the store.
C16_DuplicateDNIRejected ==
    \A w \in Workers :
        ( /\ Done(w) /\ IsCreate(w)
          /\ ~UsernameTakenAtCall(w)
          /\ DNITakenAtCall(w)
          /\ hist[w].fault = "" )
        => /\ result[w] # Nil
           /\ Category(result[w]) = "Conflict"
           /\ LeftNothing(w)
           /\ hist[w].writes = {}

\* ------------------------------------------------ claims on the decorator
CDone(c) == cpos[c] = "done"

IsFindByID(c) == creq[c].kind = "FindByID"

\* what FindByID on the backing store answers for id when table users is
\* store and the environment injects f
DirectFindByID(store, f, id) ==
    IF f # "" THEN [err |-> f, user |-> NoUser]
    ELSE IF \E u \in store : u.id = id
    THEN [err |-> Nil, user |-> CHOOSE u \in store : u.id = id]
    ELSE [err |-> ErrUserNotFound, user |-> NoUser]

\* what the backing store answered, or would have, to the read of c's call
DirectAnswer(c) == DirectFindByID(cobs[c].store, cobs[c].fault, creq[c].id)

\* C17: a FindByID of the decorator that finds no entry under the key, or
\* whose Get fails, reads the backing store and returns what FindByID on the
\* backing store returns: the same User, or the same failure.
C17_MissEqualsBackingStore ==
    \A c \in Clients :
        (CDone(c) /\ IsFindByID(c) /\ cobs[c].path \in {"miss", "unavailable"})
        => /\ cobs[c].read
           /\ cret[c] = DirectAnswer(c)
           /\ cret[c].err = Nil => /\ cret[c].user \in users
                                   /\ cret[c].user.id = creq[c].id

\* with the cache unavailable a FindByID returned the stored user, and on a
\* miss another returned the failure of the backing store
C17_Witness ==
    \E c \in Clients, d \in Clients :
        /\ CDone(c) /\ IsFindByID(c) /\ cobs[c].path = "unavailable"
        /\ cret[c].err = Nil /\ cret[c].user \in users
        /\ CDone(d) /\ IsFindByID(d) /\ cobs[d].path = "miss"
        /\ cret[d].err = ErrStorage

\* C18: no failure of the cache makes FindByID fail: a FindByID that returns
\* an error has read the backing store and returns the error of that read;
\* with a corrupt entry, a failed Get or a failed Set it returns the stored
\* User whenever the read of the backing store succeeds.
C18_CacheFailureNeverFailsRead ==
    \A c \in Clients :
        (CDone(c) /\ IsFindByID(c))
        => /\ cret[c].err # Nil
                 => /\ cobs[c].read
                    /\ DirectAnswer(c).err # Nil
                    /\ cret[c].err = DirectAnswer(c).err
           /\ ( /\ \/ cobs[c].path \in {"corrupt", "unavailable"}
                   \/ cobs[c].setFailed
                /\ DirectAnswer(c).err = Nil )
                 => /\ cret[c].err = Nil
                    /\ cret[c].user = DirectAnswer(c).user

\* a FindByID met a corrupt entry and a failing Set, another a failing Get
\* and a failing Set, and both returned the stored user
C18_Witness ==
    \E c \in Clients, d \in Clients :
        /\ CDone(c) /\ IsFindByID(c)
        /\ cobs[c].path = "corrupt" /\ cobs[c].setFailed
        /\ cret[c].err = Nil /\ cret[c].user \in users
        /\ CDone(d) /\ IsFindByID(d)
        /\ cobs[d].path = "unavailable" /\ cobs[d].setFailed
        /\ cret[d].err = Nil /\ cret[d].user \in users

\* C19: in every reachable state an entry that answers FindByID (a hit) holds
\* the User a direct read of the backing store yields at that moment, so
\* dropping the entry changes no result; and every FindByID answered from the
\* cache returned a stored User with the identifier asked for.
C19_HitEqualsBackingStore ==
    /\ \A id \in FindIds :
          LET got == RedisGet(CacheKey(id), FALSE) IN
          CacheHit(got)
          => [err |-> Nil, user |-> Unmarshal(got.val).user]
                = DirectFindByID(users, "", id)
    /\ \A c \in Clients :
          (CDone(c) /\ IsFindByID(c) /\ cobs[c].path = "hit")
          => /\ cret[c].err = Nil
             /\ cret[c].user \in users
             /\ cret[c].user.id = creq[c].id

\* a FindByID for a user stored through the decorator was answered from the
\* cache
C19_Witness ==
    \E c \in Clients :
        /\ CDone(c) /\ IsFindByID(c) /\ cobs[c].path = "hit"
        /\ creq[c].id \notin InitIds
        /\ cret[c].user.id = creq[c].id
        /\ ~cobs[c].read

\* C20: when Save through the repository changes the stored data of a User,
\* the cache entry of that User is updated: the step in which a Save
\* succeeds leaves the User's current data under the User's key.
C20_SaveUpdatesCache ==
    [][\A c \in Clients :
          ( /\ cpos[c] = "idle" /\ cpos'[c] = "done"
            /\ creq'[c].kind = "Save"
            /\ cret'[c].err = Nil )
          => cache'[CacheKey(creq'[c].id)].val = Marshal(creq'[c].user)]_vars

\* ------------------------------------------- claims on the repositories
RDone(c) == rpos[c] = "done"

\* C21: Update called with a wallet whose identifier is not in the store,
\* meeting no failure of the environment, fails with "wallet not found"
\* (NotFound) and stores nothing.
C21_UpdateMissingWalletNotFound ==
    \A c \in Clients :
        ( /\ RDone(c) /\ rreq[c].kind = "Update"
          /\ ~robs[c].store[rreq[c].wallet.id].exists
          /\ robs[c].fault = ""
          /\ ~robs[c].interfered )
        => /\ Category(rret[c]) = "NotFound"
           /\ wallets = robs[c].store

\* C22: a WithTransaction called inside the fn of another WithTransaction
\* reuses the outer transaction: with no failure of the environment, the
\* inner call's transaction never commits
\* unless the outer one does, and when the outer unit of work does not commit
\* no write of the inner fn remains in the store.
C22_NestedReusesOuterTransaction ==
    \A c \in Clients :
        ( /\ RDone(c) /\ rreq[c].kind = "Nested" /\ Len(rtxns[c]) = 2
          /\ robs[c].fault = "" )
        => /\ rtxns[c][2] = "committed" => rtxns[c][1] = "committed"
           /\ (rtxns[c][1] # "committed" /\ ~robs[c].interfered)
                 => \A id \in robs[c].inner : wallets[id] = robs[c].store[id]

\* ------------------------------------------ claims on the request boundary
\* C23: a recharge request whose amount is <= 0 is answered with bad request,
\* one that fails with "wallet not found" with not found, and the internal
\* server error answers only failures that are neither.
C23_RechargeResponses ==
    \A w \in Workers :
        (Done(w) /\ IsRecharge(w))
        => LET status == RechargeResponse(TRUE, result[w]) IN
           /\ call[w].amount <= 0 => status = StatusBadRequest
           /\ result[w] = ErrWalletNotFound => status = StatusNotFound
           /\ result[w] = Nil => status = StatusOK
           /\ status = StatusInternalServerError
                 => Category(result[w]) = "Internal"

\* C24: a transfer request that fails for insufficient funds or for identical
\* sender and receiver is answered with bad request, one that names a missing
\* wallet with not found, and one that succeeds with OK.
C24_TransferResponses ==
    \A w \in Workers :
        (Done(w) /\ IsTransfer(w))
        => LET status == TransferResponse(TRUE, result[w]) IN
           /\ result[w] \in {ErrInsufficientFunds, ErrSameWallet}
                 => status = StatusBadRequest
           /\ (call[w].amount > 0 /\ call[w].from = call[w].to)
                 => status = StatusBadRequest
           /\ result[w] \in {ErrSenderNotFound, ErrReceiverNotFound}
                 => status = StatusNotFound
           /\ ( /\ call[w].amount > 0 /\ call[w].from # call[w].to
                /\ hist[w].fault = "" /\ ~hist[w].interfered
                /\ \/ ~hist[w].wallets[call[w].from].exists
                   \/ /\ ~hist[w].wallets[call[w].to].exists
                      /\ hist[w].wallets[call[w].from].balance >= call[w].amount )
                 => status = StatusNotFound
           /\ result[w] = Nil => status = StatusOK

\* a transfer to the same wallet was answered with bad request and a
\* transfer to a missing wallet with not found
C24_Witness ==
    \E w \in Workers, v \in Workers :
        /\ Done(w) /\ IsTransfer(w)
        /\ call[w].amount > 0 /\ call[w].from = call[w].to
        /\ TransferResponse(TRUE, result[w]) = StatusBadRequest
        /\ Done(v) /\ IsTransfer(v)
        /\ call[v].amount > 0 /\ ~wallets[call[v].to].exists
        /\ result[v] = ErrReceiverNotFound
        /\ TransferResponse(TRUE, result[v]) = StatusNotFound

\* C25: a create-user request that fails because its username is taken, its
\* DNI being no stored user's and no failure of the environment being met,
\* is answered with conflict, whether the lookup or the unique constraint
\* detects the duplicate.
C25_DuplicateUsernameConflict ==
    \A w \in Workers :
        ( /\ Done(w) /\ IsCreate(w) /\ result[w] # Nil
          /\ hist[w].fault = ""
          /\ UsernameStored(call[w].username)
          /\ \A u \in users : u.dni # call[w].dni )
        => CreateUserResponse(TRUE, result[w]) = StatusConflict

\* ------------------------------------------------ claims on the money held
\* w's call committed: it returned nil and its transaction was committed
Committed(w) == Done(w) /\ result[w] = Nil /\ txn[w] = "committed"

\* what w's call, when it committed, credits to wallet id
CreditOf(w, id) ==
    IF Committed(w) /\ ( \/ IsRecharge(w) /\ call[w].walletID = id
                         \/ IsTransfer(w) /\ call[w].to = id )
    THEN call[w].amount ELSE 0

\* what w's call, when it committed, debits from wallet id
DebitOf(w, id) ==
    IF Committed(w) /\ IsTransfer(w) /\ call[w].from = id
    THEN call[w].amount ELSE 0

\* the sum of f over S
RECURSIVE SumOver(_, _)
SumOver(f, S) ==
    IF S = {} THEN 0
    ELSE LET x == CHOOSE y \in S : TRUE IN f[x] + SumOver(f, S \ {x})

\* the balance wallet id had in the initial store (0 for a wallet made since)
InitialBalance(id) == IF id \in InitIds THEN InitBalance[id] ELSE 0

\* C26: once every call has returned, none of them having met a failure of
\* the environment, the stored balance of every wallet is its initial
\* balance plus the credits of the committed calls minus their debits.
C26_NoCommittedChangeLost ==
    (\A w \in Workers : Done(w) /\ hist[w].fault = "")
    => \A id \in Ids :
          wallets[id].balance
             = InitialBalance(id)
                 + SumOver([w \in Workers |-> CreditOf(w, id)], Workers)
                 - SumOver([w \in Workers |-> DebitOf(w, id)], Workers)

\* the amount of w's call when it is a committed Recharge
RechargedBy(w) == IF Committed(w) /\ IsRecharge(w) THEN call[w].amount ELSE 0

\* C27: in every reachable state the sum of the stored balances is the sum
\* the initial store holds plus the amounts of the committed Recharges.
C27_MoneyOnlyFromRecharges ==
    SumOver([id \in Ids |-> wallets[id].balance], Ids)
       = SumOver([id \in Ids |-> InitialBalance(id)], Ids)
           + SumOver([w \in Workers |-> RechargedBy(w)], Workers)

\* C28: a Transfer that committed, no other call having written the store
\* since it was made, leaves the sender's stored balance at the value it had
\* when the call was made minus amount and the receiver's at its value plus
\* amount.
C28_TransferMovesAmount ==
    \A w \in Workers :
        (IsTransfer(w) /\ Committed(w) /\ ~hist[w].interfered)
        => /\ wallets[call[w].from].balance
                 = hist[w].wallets[call[w].from].balance - call[w].amount
           /\ wallets[call[w].to].balance
                 = hist[w].wallets[call[w].to].balance + call[w].amount

\* a Transfer of a positive amount committed with no other write interleaved
C28_Witness ==
    \E w \in Workers :
        /\ IsTransfer(w) /\ Committed(w) /\ ~hist[w].interfered
        /\ call[w].amount > 0
        /\ hist[w].writes = {"from", "to"}
        /\ wallets[call[w].from] # hist[w].wallets[call[w].from]

\* the store w's call was made on is the store its statements read
Undisturbed(w) == hist[w].fault = "" /\ ~hist[w].interfered

\* C29: the failures of a Transfer that meets no failure of the environment
\* and no concurrent write have a fixed precedence: amount <= 0, then
\* identical wallets, then sender absent (NotFound), then insufficient funds
\* (FailedPrecondition), then receiver absent (NotFound).
C29_TransferFailurePrecedence ==
    \A w \in Workers :
        (Done(w) /\ IsTransfer(w))
        => LET from == hist[w].wallets[call[w].from]
               to == hist[w].wallets[call[w].to]
               valid == call[w].amount > 0 /\ call[w].from # call[w].to
                           /\ Undisturbed(w) IN
           /\ call[w].amount <= 0 => result[w] = ErrTransferAmount
           /\ (call[w].amount > 0 /\ call[w].from = call[w].to)
                 => result[w] = ErrSameWallet
           /\ (valid /\ ~from.exists)
                 => /\ result[w] = ErrSenderNotFound
                    /\ Category(result[w]) = "NotFound"
           /\ (valid /\ from.exists /\ from.balance < call[w].amount)
                 => /\ result[w] = ErrInsufficientFunds
                    /\ Category(result[w]) = "FailedPrecondition"
           /\ (valid /\ from.exists /\ from.balance >= call[w].amount
                  /\ ~to.exists)
                 => /\ result[w] = ErrReceiverNotFound
                    /\ Category(result[w]) = "NotFound"

\* a transfer exceeding the sender's balance to a receiver that does not
\* exist failed for insufficient funds, and a transfer of more than any
\* wallet holds from a sender that does not exist failed for the sender
C29_Witness ==
    \E w \in Workers, v \in Workers :
        /\ Done(w) /\ IsTransfer(w) /\ Undisturbed(w)
        /\ call[w].amount > 0 /\ call[w].from # call[w].to
        /\ hist[w].wallets[call[w].from].exists
        /\ hist[w].wallets[call[w].from].balance < call[w].amount
        /\ ~hist[w].wallets[call[w].to].exists
        /\ result[w] = ErrInsufficientFunds
        /\ Done(v) /\ IsTransfer(v) /\ Undisturbed(v)
        /\ call[v].amount > 0 /\ call[v].from # call[v].to
        /\ ~hist[v].wallets[call[v].from].exists
        /\ hist[v].wallets[call[v].from].balance < call[v].amount
        /\ result[v] = ErrSenderNotFound

\* the wallet whose load the not-found error e of w's call speaks of
MissingWallet(w, e) ==
    CASE e = ErrSenderNotFound -> call[w].from
      [] e = ErrReceiverNotFound -> call[w].to
      [] OTHER -> call[w].walletID

\* C30: a Transfer or Recharge fails with NotFound only when the wallet it
\* names is absent from the store: the load it failed on met no failure of
\* the environment (such a failure is reported as Internal), and the wallet
\* was absent when the call was made unless another call wrote since.
C30_NotFoundOnlyWhenAbsent ==
    \A w \in Workers :
        ( /\ Done(w) /\ (IsTransfer(w) \/ IsRecharge(w))
          /\ Category(result[w]) = "NotFound" )
        => /\ hist[w].fault = ""
           /\ ~hist[w].interfered
                 => ~hist[w].wallets[MissingWallet(w, result[w])].exists

\* ------------------------------------------------------ claims on progress
\* a statement of w's call, or the COMMIT that ends it
Step(w) ==
    \/ Recharge_FindByID(w)
    \/ Recharge_Update(w)
    \/ Transfer_FindFrom(w)
    \/ Transfer_FindTo(w)
    \/ Transfer_UpdateFrom(w)
    \/ Transfer_UpdateTo(w)
    \/ Create_SaveUser(w)
    \/ Create_SaveWallet(w)
    \/ Commit(w)

\* the use cases under fair scheduling: a goroutine that is inside a call is
\* eventually scheduled and the database eventually answers the statement it
\* issues.  No request is required ever to arrive.
LiveSpec == Init /\ [][Next]_vars /\ \A w \in Workers : WF_vars(Step(w))

\* w's call is under way
Running(w) == pc[w] \notin {"idle", "done"}

\* w and v run Transfers in opposite directions between the same two wallets
Opposite(w, v) ==
    /\ w # v /\ IsTransfer(w) /\ IsTransfer(v)
    /\ call[w].from = call[v].to /\ call[w].to = call[v].from
    /\ Running(w) /\ Running(v)

\* C31: two concurrent Transfers in opposite directions between the same two
\* wallets never block each other forever: under fair scheduling both
\* eventually return, committed or failed.
C31_OppositeTransfersTerminate ==
    \A w \in Workers, v \in Workers :
        Opposite(w, v) ~> (Done(w) /\ Done(v))

\* two Transfers in opposite directions, both past their loads at once, have
\* both committed
C31_Witness ==
    \E w \in Workers, v \in Workers :
        /\ w # v /\ IsTransfer(w) /\ IsTransfer(v)
        /\ call[w].from = call[v].to /\ call[w].to = call[v].from
        /\ Committed(w) /\ Committed(v)
        /\ hist[w].interfered /\ hist[v].interfered

\* ------------------------------------------------- claims on what is left
\* the wallets the call of w may touch
Targets(w) ==
    IF IsRecharge(w) THEN {call[w].walletID}
    ELSE IF IsTransfer(w) THEN {call[w].from, call[w].to}
    ELSE {}

\* the step is one of w's call and changes, of the existing wallets, only the
\* balance of a wallet the call names; a wallet it adds is a new one
FrameOf(w) ==
    \A id \in Ids :
        wallets'[id] # wallets[id]
        => IF wallets[id].exists
           THEN /\ id \in Targets(w)
                /\ wallets'[id] = [wallets[id] EXCEPT !.balance = wallets'[id].balance]
           ELSE /\ IsCreate(w)
                /\ wallets'[id].balance = DefaultBalance

\* C32: every step of a Recharge changes at most the balance of its target
\* wallet, every step of a Transfer at most the balances of its sender and
\* receiver; every other wallet, and the owner and currency of every wallet,
\* are left as they were, and no step of a Create changes an existing wallet.
C32_OnlyTargetBalancesChange ==
    [][\A w \in Workers : pc'[w] # pc[w] => FrameOf(w)]_vars

\* a Transfer and a Recharge have both committed and written, and a wallet
\* neither names is as it was in the initial store
C32_Witness ==
    \E w \in Workers, v \in Workers, id \in InitIds :
        /\ IsTransfer(w) /\ Committed(w) /\ hist[w].writes = {"from", "to"}
        /\ IsRecharge(v) /\ Committed(v) /\ hist[v].writes = {"wallet"}
        /\ id \notin Targets(w) \cup Targets(v)
        /\ wallets[id].balance = InitBalance[id]
        /\ \E t \in Targets(w) : wallets[t].balance # InitBalance[t]

\* ------------------------------------- claims on the decorator's pass-through
\* the step is the whole of a Save or FindByUsername call of c
PassThroughStep(c) ==
    /\ cpos[c] = "idle" /\ cpos'[c] = "done"
    /\ creq'[c].kind \in {"Save", "FindByUsername"}

\* what the backing store does with the call of c in this step: under a
\* failure of the environment it answers the failure and stores nothing;
\* FindByUsername answers the stored user of that name, or "user not found";
\* Save stores the row and answers nil, or answers the constraint's error
BackingResult(c) ==
    LET req == creq'[c]
        ret == cret'[c]
        f == cobs'[c].fault IN
    IF f # "" THEN ret = [err |-> f, user |-> NoUser] /\ users' = users
    ELSE IF req.kind = "FindByUsername"
    THEN /\ users' = users
         /\ IF \E u \in users : u.username = req.username
            THEN /\ ret.err = Nil
                 /\ ret.user \in users /\ ret.user.username = req.username
            ELSE ret = [err |-> ErrUserNotFound, user |-> NoUser]
    ELSE IF \E u \in users : \/ u.id = req.user.id
                             \/ u.username = req.user.username
                             \/ u.dni = req.user.dni
    THEN ret.err = ErrDuplicateKey /\ users' = users
    ELSE ret.err = Nil /\ users' = users \cup {req.user}

HitStep(c) ==
    /\ cpos[c] = "idle" /\ cpos'[c] = "done"
    /\ creq'[c].kind = "FindByID"

\* the step is the Set of a FindByID of c that read its user from the store
\* and writes it under the user's key for CacheTTL minutes
MissSetStep(c, k) ==
    /\ cpos[c] = "F_set" /\ cpos'[c] = "done"
    /\ k = CacheKey(creq[c].id)
    /\ cobs[c].read /\ cuser[c] \in cobs[c].store /\ cuser[c].id = creq[c].id
    /\ cache'[k] = [val |-> Marshal(cuser[c]), ttl |-> CacheTTL]

\* the step takes from the entry under k nothing but time to live
Ages(k) ==
    \/ cache'[k] = NoEntry
    \/ cache'[k].val = cache[k].val /\ cache'[k].ttl < cache[k].ttl

\* entries are written only by the Set of a successful FindByID miss, under
\* the user's key and for CacheTTL minutes, and a hit neither reads the
\* backing store nor changes any entry
WrittenOnlyByMiss ==
    /\ \A k \in Keys :
          cache'[k] # cache[k] => (Ages(k) \/ \E c \in Clients : MissSetStep(c, k))
    /\ \A c \in Clients :
          HitStep(c) => (cache' = cache /\ users' = users /\ ~cobs'[c].read)

\* C34 as stated: the snapshot a hit serves was read from the backing store
\* at most CacheTTL minutes before.
C34_ServedWithinTTLOfRead ==
    [][\A c \in Clients :
          HitStep(c)
          => elapsed.entry[CacheKey(creq'[c].id)].sinceRead <= CacheTTL]_vars

\* C34, amended: the snapshot a hit serves was written to the cache at most
\* CacheTTL minutes before, by the miss that read it from the backing store;
\* entries are written only by such a miss, and a hit neither reads the
\* store nor rewrites or extends the entry.
C34_ServedWithinTTLOfSet ==
    [][ /\ WrittenOnlyByMiss
        /\ \A c \in Clients :
              HitStep(c)
              => elapsed.entry[CacheKey(creq'[c].id)].sinceSet <= CacheTTL ]_vars

\* a hit has served an entry in the last minute of its life
C34_Witness ==
    \E c \in Clients :
        /\ CDone(c) /\ IsFindByID(c) /\ cobs[c].path = "hit"
        /\ cache[CacheKey(creq[c].id)].ttl = 1
        /\ elapsed.entry[CacheKey(creq[c].id)].sinceSet = CacheTTL - 1
        /\ cret[c].user \in users

\* --------------------------------------- claims on failures of the lookup
\* the step ends a FindByID of c with a failure
FindByIDFails(c) ==
    /\ cpos[c] # "done" /\ cpos'[c] = "done"
    /\ creq'[c].kind = "FindByID"
    /\ cret'[c].err # Nil

\* C35: a FindByID of the decorator fails only in the step that reads the
\* backing store, with the failure of the backing store ("user not found"
\* only when no user has the identifier), and that step writes nothing to
\* the cache: once the user is stored, no FindByID answers "user not found".
C35_FailureNotCached ==
    [][\A c \in Clients :
          FindByIDFails(c)
          => /\ cpos[c] = "F_find"
             /\ cache' = cache
             /\ cret'[c].user = NoUser
             /\ IF cobs'[c].fault # ""
                THEN cret'[c].err = cobs'[c].fault
                ELSE /\ cret'[c].err = ErrUserNotFound
                     /\ ~\E u \in users : u.id = creq'[c].id]_vars

\* a FindByID failed with "user not found" and left nothing under the key;
\* the user has been stored since and another FindByID of the same
\* identifier missed the cache and returned it
C35_Witness ==
    \E c \in Clients, d \in Clients :
        /\ CDone(c) /\ IsFindByID(c) /\ cret[c].err = ErrUserNotFound
        /\ CDone(d) /\ IsFindByID(d) /\ creq[d].id = creq[c].id
        /\ cobs[d].path = "miss"
        /\ cret[d].err = Nil /\ cret[d].user \in users
        /\ cret[d].user.id = creq[c].id

\* ------------------------------------------- claims on the whole balance
\* w's call is a Transfer, between two wallets of the store at the call, of
\* exactly what the sender held
WholeBalance(w) ==
    /\ IsTransfer(w) /\ call[w].amount > 0 /\ call[w].from # call[w].to
    /\ hist[w].wallets[call[w].from].exists
    /\ hist[w].wallets[call[w].to].exists
    /\ hist[w].wallets[call[w].from].balance = call[w].amount

\* C36: a Transfer whose amount is exactly the sender's balance, meeting no
\* failure of the environment and no concurrent write, is not rejected for
\* insufficient funds: it commits and leaves the sender's stored balance 0.
C36_ExactBalanceAccepted ==
    \A w \in Workers :
        (Done(w) /\ WholeBalance(w) /\ Undisturbed(w))
        => /\ result[w] # ErrInsufficientFunds
           /\ Committed(w)
           /\ wallets[call[w].from].balance = 0

\* a Transfer of the sender's whole balance has committed and the sender
\* holds nothing
C36_Witness ==
    \E w \in Workers :
        /\ Done(w) /\ WholeBalance(w) /\ Undisturbed(w)
        /\ Committed(w)
        /\ wallets[call[w].from].balance = 0
        /\ wallets[call[w].to].balance
              = hist[w].wallets[call[w].to].balance + call[w].amount

====
